---- MODULE Spec2Model ----
(***************************************************************************)
(* A model of shell-scripts/temp-extract-archive.py: the format            *)
(* dispatcher, the extraction strategies, the directory reconciler, the    *)
(* common-root collapser and the orchestrator that owns the temporary      *)
(* workspace.                                                              *)
(*                                                                         *)
(* Strings are tuples of one-character strings, so that lower() and        *)
(* os.path.splitext() are computed character by character.  The workspace  *)
(* is a function from paths (tuples of names, relative to the workspace    *)
(* root <<>>) to is_dir; plain files and directories are the only kinds of *)
(* entry modelled.                                                         *)
(***************************************************************************)
EXTENDS Integers, Sequences, FiniteSets, TLC

VARIABLES
  pc,            \* position of the script
  FLAGS,         \* the parsed command-line flags
  argv,          \* the positional arguments argv[1:] (archive names)
  cwd,           \* os.getcwd()
  pwfiles,       \* which password side-car files exist
  idx,           \* index of the archive being extracted (loop of main)
  tempdir,       \* TRUE while the workspace directory exists
  fs,            \* the tree below the workspace
  fs0,           \* the tree when the last reconciler pass started
  calls,         \* the _merge_files_in_directories calls of the last pass
  merges,        \* per reconciler pass run, the number of its merge calls
  raised,        \* the exception propagating, "none" when there is none
  ext,           \* the extension extract_archive derived last
  runs,          \* the external commands run so far, in order
  trace,         \* the steps taken so far, in order
  ret,           \* the value main returned, None before it returns
  shell_cwd,     \* working directory the shell was launched in
  shell_status,  \* exit status of the interactive shell, -1 before it exits
  removals,      \* number of times the workspace was removed
  exit_code      \* exit code of the process, -1 while it runs

vars == <<pc, FLAGS, argv, cwd, pwfiles, idx, tempdir, fs, fs0, calls, merges,
          raised, ext, runs, trace, ret, shell_cwd, shell_status, removals,
          exit_code>>

(***************************************************************************)
(* Bounds of the model.                                                    *)
(***************************************************************************)
MaxNodes == 5      \* entries of a tree handed to the reconciler alone
MaxDepth == 2      \* depth of the directories an entry may be written into

(***************************************************************************)
(* Strings.                                                                *)
(***************************************************************************)
UpperChars == <<"A","B","C","D","E","F","G","H","I","J","K","L","M",
                "N","O","P","Q","R","S","T","U","V","W","X","Y","Z">>
LowerChars == <<"a","b","c","d","e","f","g","h","i","j","k","l","m",
                "n","o","p","q","r","s","t","u","v","w","x","y","z">>

\* str.lower(), one character
lower_char(c) ==
  IF \E i \in 1..Len(UpperChars) : UpperChars[i] = c
  THEN LowerChars[CHOOSE i \in 1..Len(UpperChars) : UpperChars[i] = c]
  ELSE c

\* str.lower()
lower(s) == [i \in 1..Len(s) |-> lower_char(s[i])]

(***************************************************************************)
(* The file system below the workspace.                                    *)
(***************************************************************************)
Foo == <<"F","o","o">>
foo == <<"f","o","o">>
a_txt == <<"a",".","t","x","t">>
b_txt == <<"b",".","t","x","t">>
FOO == <<"F","O","O">>

\* the entries an extraction tool may create: a name and whether it is a
\* directory
EntryKinds == {<<Foo, TRUE>>, <<foo, TRUE>>, <<FOO, TRUE>>,
               <<a_txt, FALSE>>, <<a_txt, TRUE>>, <<b_txt, FALSE>>}

EmptyTree == <<>>

IsPrefix(d, p) == Len(d) <= Len(p) /\ SubSeq(p, 1, Len(d)) = d

\* os.path.join(dirname, entry)
join(d, e) == d \o <<e>>

Children(t, d) == {p \in DOMAIN t : Len(p) = Len(d) + 1 /\ IsPrefix(d, p)}

\* os.listdir(dirname)
listdir(t, d) == {p[Len(p)] : p \in Children(t, d)}

\* os.path.isdir(path); the workspace root <<>> is a directory
isdir(t, p) == IF p = <<>> THEN TRUE ELSE p \in DOMAIN t /\ t[p]

Remove(t, p) == [q \in DOMAIN t \ {p} |-> t[q]]

\* os.unlink(path)
unlink(st, p) == [st EXCEPT !.fs = Remove(st.fs, p)]

\* os.rmdir(path): fails on a directory that is not empty
rmdir(st, p) ==
  IF Children(st.fs, p) # {}
  THEN [st EXCEPT !.err = "OSError"]
  ELSE [st EXCEPT !.fs = Remove(st.fs, p)]

(***************************************************************************)
(* _merge_files_in_directories.  A computation is a record st = [fs, err,  *)
(* calls]; an operator returns the set of records the call can end in, one *)
(* for every order in which os.listdir may list the entries.  A record     *)
(* whose err is not "ok" is an exception propagating: nothing runs after   *)
(* it.                                                                     *)
(***************************************************************************)
\* lines 191-194: the second argument of os.rename names the undefined
\* global s, so evaluating the arguments raises NameError and os.rename is
\* never called
rename_entry(st, remote_dir, local_dir, entry) ==
  [st EXCEPT !.err = "NameError"]

RECURSIVE _merge_files_in_directories(_, _, _)
RECURSIVE MergeEntries(_, _, _, _, _)

\* one iteration of the loop of lines 170-194
MergeEntry(st, remote_dir, local_dir, local_dir_entries, entry) ==
  LET is_dir == isdir(st.fs, join(remote_dir, entry))
  IN  IF entry \in DOMAIN local_dir_entries
      THEN IF ~is_dir /\ ~local_dir_entries[entry]
           THEN {unlink(st, join(remote_dir, entry))}
           ELSE IF ~is_dir \/ ~local_dir_entries[entry]
                THEN {[st EXCEPT !.err = "MergeFailureError"]}
                ELSE _merge_files_in_directories(
                       st, join(remote_dir, entry), join(local_dir, entry))
      ELSE {rename_entry(st, remote_dir, local_dir, entry)}

\* the loop of lines 170-194 over the entries not yet seen, then line 195
MergeEntries(st, remote_dir, local_dir, local_dir_entries, todo) ==
  IF todo = {}
  THEN {rmdir(st, remote_dir)}
  ELSE UNION {
         UNION { IF o.err = "ok"
                 THEN MergeEntries(o, remote_dir, local_dir, local_dir_entries,
                                   todo \ {entry})
                 ELSE {o}
               : o \in MergeEntry(st, remote_dir, local_dir,
                                  local_dir_entries, entry) }
       : entry \in todo }

_merge_files_in_directories(st, remote_dir, local_dir) ==
  IF remote_dir = local_dir
  THEN {[st EXCEPT !.err = "AssertionError"]}
  ELSE LET local_dir_entries ==
             [entry \in listdir(st.fs, local_dir) |->
                isdir(st.fs, join(local_dir, entry))]
           st1 == [st EXCEPT !.calls =
                     Append(@, [remote |-> remote_dir, local |-> local_dir,
                                pre |-> st.fs])]
       IN  MergeEntries(st1, remote_dir, local_dir, local_dir_entries,
                        listdir(st.fs, remote_dir))

(***************************************************************************)
(* _merge_directories_ignore_case                                          *)
(***************************************************************************)
RECURSIVE _merge_directories_ignore_case(_, _)
RECURSIVE MergeRemotes(_, _, _, _)
RECURSIVE MergeGroups(_, _, _, _)
RECURSIVE RecurseInto(_, _, _)

\* lines 218-222: merge every other member of a group into local_dir
MergeRemotes(st, base_dir, local_dir, todo) ==
  IF todo = {}
  THEN {st}
  ELSE UNION {
         UNION { IF o.err = "ok"
                 THEN MergeRemotes(o, base_dir, local_dir, todo \ {remote_dir})
                 ELSE {o}
               : o \in _merge_files_in_directories(
                         st, join(base_dir, remote_dir),
                         join(base_dir, local_dir)) }
       : remote_dir \in todo }

\* RecurseInto with the recursion of lines 225-227 left out
RecurseIntoNone(st, base_dir, todo) == {st}

\* lines 225-227: recurse into every surviving directory
RecurseInto(st, base_dir, todo) ==
  IF todo = {}
  THEN {st}
  ELSE UNION {
         UNION { IF o.err = "ok"
                 THEN RecurseInto(o, base_dir, todo \ {dir_})
                 ELSE {o}
               : o \in _merge_directories_ignore_case(st, join(base_dir, dir_)) }
       : dir_ \in todo }

\* MergeGroups with line 210 reading "len(dirs) < 1": one-member groups are
\* merged as well
MergeGroupsSingletons(st, base_dir, dir_map, todo) ==
  IF todo = {}
  THEN RecurseInto(st, base_dir, UNION {dir_map[k] : k \in DOMAIN dir_map})
  ELSE UNION {
         IF Cardinality(dir_map[k]) < 1
         THEN MergeGroups(st, base_dir, dir_map, todo \ {k})
         ELSE IF dir_map[k] \ {k} = {}
         THEN {[st EXCEPT !.err = "KeyError"]}
         ELSE UNION {
                UNION { IF o.err = "ok"
                        THEN MergeGroups(o, base_dir,
                                         [dir_map EXCEPT ![k] = {local_dir}],
                                         todo \ {k})
                        ELSE {o}
                      : o \in MergeRemotes(st, base_dir, local_dir,
                                           dir_map[k] \ {local_dir}) }
              : local_dir \in dir_map[k] \ {k} }
       : k \in todo }

\* lines 209-223: the loop over the groups of dir_map, then lines 225-227
MergeGroups(st, base_dir, dir_map, todo) ==
  IF todo = {}
  THEN RecurseInto(st, base_dir, UNION {dir_map[k] : k \in DOMAIN dir_map})
  ELSE UNION {
         IF Cardinality(dir_map[k]) <= 1
         THEN MergeGroups(st, base_dir, dir_map, todo \ {k})
         ELSE IF dir_map[k] \ {k} = {}
         THEN {[st EXCEPT !.err = "KeyError"]}   \* set().pop()
         ELSE UNION {
                UNION { IF o.err = "ok"
                        THEN MergeGroups(o, base_dir,
                                         [dir_map EXCEPT ![k] = {local_dir}],
                                         todo \ {k})
                        ELSE {o}
                      : o \in MergeRemotes(st, base_dir, local_dir,
                                           dir_map[k] \ {local_dir}) }
              : local_dir \in dir_map[k] \ {k} }
       : k \in todo }

_merge_directories_ignore_case(st, base_dir) ==
  LET dirs == {entry \in listdir(st.fs, base_dir) :
                 isdir(st.fs, join(base_dir, entry))}
      dir_map == [k \in {lower(dir_) : dir_ \in dirs} |->
                    {dir_ \in dirs : lower(dir_) = k}]
  IN  MergeGroups(st, base_dir, dir_map, DOMAIN dir_map)

(***************************************************************************)
(* The format dispatcher and the extraction strategies (class Extractor).  *)
(***************************************************************************)
\* Python values that may be None: <<>> is None, <<v>> is the value v
None == <<>>
Some(v) == <<v>>

\* str.rfind(ch) + 1: the last position of ch in p, 0 when there is none
rfind(p, ch) ==
  IF \E i \in 1..Len(p) : p[i] = ch
  THEN CHOOSE i \in 1..Len(p) :
         p[i] = ch /\ \A j \in (i + 1)..Len(p) : p[j] # ch
  ELSE 0

\* os.path.splitext(p)[1]: the text from the last dot of the last path
\* component on, unless only dots come before it in that component
splitext(p) ==
  LET sepIndex == rfind(p, "/")
      dotIndex == rfind(p, ".")
  IN  IF /\ dotIndex > sepIndex
         /\ \E i \in (sepIndex + 1)..(dotIndex - 1) : p[i] # "."
      THEN SubSeq(p, dotIndex, Len(p))
      ELSE <<>>

\* os.path.join(a, b) on path strings
path_join(a, b) ==
  IF Len(b) > 0 /\ b[1] = "/" THEN b
  ELSE IF a = <<>> \/ a[Len(a)] = "/" THEN a \o b
  ELSE a \o <<"/">> \o b

\* os.path.dirname(p)
dirname(p) ==
  LET i == rfind(p, "/")
      head == SubSeq(p, 1, i)
  IN  IF head # <<>> /\ \E j \in 1..Len(head) : head[j] # "/"
      THEN SubSeq(head, 1, CHOOSE k \in 1..Len(head) :
                             head[k] # "/" /\ \A j \in (k + 1)..Len(head) : head[j] = "/")
      ELSE head

RarExts == {<<".","c","b","r">>, <<".","r","a","r">>, <<".","r","a","r","_">>}
ZipExts == {<<".","c","b","z">>, <<".","e","g","g">>, <<".","j","a","r">>,
            <<".","p","a","r">>, <<".","z","i","p">>, <<".","a","p","k">>,
            <<".","x","a","p","k">>, <<".","c","r","x">>}
SevenZipExts == {<<".","7","z">>, <<".","i","m","g">>, <<".","i","s","o">>,
                 <<".","d","m","g">>}
TarExts == {<<".","b","z","2">>, <<".","g","z","2">>, <<".","t","g","z">>,
            <<".","t","b","z">>, <<".","t","a","r">>, <<".","g","z">>,
            <<".","x","z">>, <<".","z","s","t">>}
ArExts == {<<".","d","e","b">>}

\* Extractor.create_extractors_mapping: the five loops in order, a later
\* assignment to a key replacing an earlier one
create_extractors_mapping(flags) ==
  LET r1 == [e \in RarExts |-> "_extract_rar"]
      r2 == [e \in ZipExts |->
               IF flags.use_7z_for_zip THEN "_extract_7z" ELSE "_extract_zip"] @@ r1
      r3 == [e \in SevenZipExts |-> "_extract_7z"] @@ r2
      r4 == [e \in TarExts |-> "_extract_tar"] @@ r3
      r5 == [e \in ArExts |-> "_extract_ar"] @@ r4
  IN  r5

\* Extractor._get_password: the archive's own .password file first, then
\* passwd.txt of its directory; files is the set of side-car files that exist
PasswordFiles == {"archive.password", "passwd.txt"}
_get_password(container_filename, files) ==
  IF "archive.password" \in files
  THEN Some([file |-> container_filename \o <<".","p","a","s","s","w","o","r","d">>])
  ELSE IF "passwd.txt" \in files
  THEN Some([file |-> path_join(dirname(container_filename),
                                <<"p","a","s","s","w","d",".","t","x","t">>)])
  ELSE None

\* the command line a strategy builds and hands to _run_extractor; password
\* is None or the file whose stripped text follows -p
_extract_rar(filename, files) ==
  LET password == _get_password(filename, files)
  IN  [prog |-> "unrar",
       args |-> <<"x", "-or">> \o (IF password = None THEN <<"-p-">> ELSE <<"-p{}">>)
                \o <<"--">>,
       password |-> password, file |-> filename]

_extract_zip(filename, files) ==
  LET password == _get_password(filename, files)
  IN  [prog |-> "unzip",
       args |-> (IF password # None THEN <<"-p{}">> ELSE <<>>) \o <<"--">>,
       password |-> password, file |-> filename]

_extract_7z(filename, files) ==
  LET password == _get_password(filename, files)
  IN  [prog |-> "7z",
       args |-> <<"x", "-y">> \o (IF password # None THEN <<"-p{}">> ELSE <<>>)
                \o <<"--">>,
       password |-> password, file |-> filename]

_extract_tar(filename, files) ==
  [prog |-> "tar", args |-> <<"xvvf">>, password |-> None, file |-> filename]

_extract_ar(filename, files) ==
  [prog |-> "ar", args |-> <<"x", "--">>, password |-> None, file |-> filename]

CallExtractor(extractor_func, filename, files) ==
  CASE extractor_func = "_extract_rar" -> _extract_rar(filename, files)
    [] extractor_func = "_extract_zip" -> _extract_zip(filename, files)
    [] extractor_func = "_extract_7z"  -> _extract_7z(filename, files)
    [] extractor_func = "_extract_tar" -> _extract_tar(filename, files)
    [] extractor_func = "_extract_ar"  -> _extract_ar(filename, files)

\* filename_extension with line 94, the lower-casing, left out
filename_extension_as_written(filename, flags) ==
  IF flags.override_extension # <<>>
  THEN flags.override_extension
  ELSE splitext(filename)

\* lines 91-94 of Extractor.extract_archive
filename_extension(filename, flags) ==
  lower(IF flags.override_extension # <<>>
        THEN flags.override_extension
        ELSE splitext(filename))

\* Extractor.extract_archive: the extension derived, the exception raised
\* and the commands run (none or one)
extract_archive(filename, flags, files) ==
  LET _extractors == create_extractors_mapping(flags)
      e == filename_extension(filename, flags)
  IN  IF e \notin DOMAIN _extractors
      THEN [ext |-> e, err |-> "UnknownArchiveError", cmds |-> <<>>]
      ELSE [ext |-> e, err |-> "ok",
            cmds |-> <<CallExtractor(_extractors[e], filename, files)>>]

(***************************************************************************)
(* The dispatcher on its own: main's path resolution and one call of       *)
(* extract_archive, for every file name, working directory, flag setting   *)
(* and set of password files within the bounds.                            *)
(***************************************************************************)
MaxStem == 2       \* characters of a file name before its last part

StemChars == {"a", ".", "/"}
Stems == UNION {[1..n -> StemChars] : n \in 0..MaxStem}
Tails ==
  RarExts \cup ZipExts \cup SevenZipExts \cup TarExts \cup ArExts \cup
  {<<".","Z","I","P">>, <<".","R","a","r">>, <<".","T","G","Z">>,
   <<".","D","e","B">>, <<".","7","Z">>,
   <<".","t","x","t">>, <<".","z","i","p","x">>, <<"z","i","p">>,
   <<".">>, <<>>}
Overrides == {<<>>, <<".","Z","I","P">>, <<".","r","a","r">>,
              <<"z","i","p">>, <<".","t","x","t">>}
Cwds == {<<"/","w">>, <<"/","w",".","g","z">>}

DefaultFlags ==
  [use_7z_for_zip |-> TRUE, override_extension |-> <<>>,
   decode_charset |-> FALSE, munge_slashes |-> FALSE,
   pretend_case_insensitive |-> TRUE]

InitDispatch ==
  /\ pc = "dispatch"
  /\ \E stem \in Stems, tail \in Tails : argv = <<stem \o tail>>
  /\ argv[1] # <<>>
  /\ cwd \in Cwds
  /\ \E u \in BOOLEAN, o \in Overrides :
       FLAGS = [DefaultFlags EXCEPT !.use_7z_for_zip = u,
                                    !.override_extension = o]
  /\ pwfiles \in SUBSET PasswordFiles
  /\ idx = 1
  /\ tempdir = TRUE
  /\ fs = EmptyTree
  /\ fs0 = EmptyTree
  /\ calls = <<>>
  /\ merges = <<>>
  /\ raised = "none"
  /\ ext = <<>>
  /\ runs = <<>>
  /\ trace = <<>>
  /\ ret = None
  /\ shell_cwd = <<>>
  /\ shell_status = -1
  /\ removals = 0
  /\ exit_code = -1

\* lines 246-251 for one archive: the absolute path, then extract_archive
Extract ==
  LET r == extract_archive(path_join(cwd, argv[idx]), FLAGS, pwfiles)
  IN  /\ ext' = r.ext
      /\ runs' = runs \o r.cmds
      /\ raised' = IF r.err = "ok" THEN "none" ELSE r.err

Dispatch ==
  /\ pc = "dispatch"
  /\ Extract
  /\ pc' = "dispatched"
  /\ UNCHANGED <<FLAGS, argv, cwd, pwfiles, idx, tempdir, fs, fs0, calls,
                 merges, trace, ret, shell_cwd, shell_status, removals,
                 exit_code>>

NextDispatch == Dispatch

SpecDispatch == InitDispatch /\ [][NextDispatch]_vars

(***************************************************************************)
(* The tree functions on their own: an extraction tool writes a tree, then *)
(* either _merge_directories_ignore_case runs on it, once or twice, or     *)
(* _get_minimal_common_directory does.                                     *)
(***************************************************************************)
Idle ==
  /\ FLAGS = DefaultFlags
  /\ argv = <<>>
  /\ cwd = <<"/">>
  /\ pwfiles = {}
  /\ idx = 1
  /\ tempdir = TRUE
  /\ fs = EmptyTree
  /\ fs0 = EmptyTree
  /\ calls = <<>>
  /\ merges = <<>>
  /\ raised = "none"
  /\ ext = <<>>
  /\ runs = <<>>
  /\ trace = <<>>
  /\ ret = <<>>
  /\ shell_cwd = <<>>
  /\ shell_status = -1
  /\ removals = 0
  /\ exit_code = -1

InitTree == pc = "build" /\ Idle

\* an extraction tool creates one file or directory in the workspace
Write(limit) ==
  /\ Cardinality(DOMAIN fs) < limit
  /\ \E d \in {<<>>} \cup {p \in DOMAIN fs : fs[p]}, k \in EntryKinds :
       /\ Len(d) < MaxDepth
       /\ join(d, k[1]) \notin DOMAIN fs
       /\ fs' = (join(d, k[1]) :> k[2]) @@ fs

BuildTree ==
  /\ pc = "build"
  /\ Write(MaxNodes)
  /\ UNCHANGED <<pc, FLAGS, argv, cwd, pwfiles, idx, tempdir, fs0, calls,
                 merges, raised, ext, runs, trace, ret, shell_cwd, shell_status,
                 removals, exit_code>>

\* one call _merge_directories_ignore_case(tempdir)
Reconcile ==
  /\ \E o \in _merge_directories_ignore_case(
                [fs |-> fs, err |-> "ok", calls |-> <<>>], <<>>) :
       /\ fs' = o.fs
       /\ calls' = o.calls
       /\ merges' = Append(merges, Len(o.calls))
       /\ raised' = IF o.err = "ok" THEN "none" ELSE o.err
  /\ fs0' = fs

ReconcilePass ==
  /\ pc = "build"
  /\ Reconcile
  /\ pc' = "pass"
  /\ UNCHANGED <<FLAGS, argv, cwd, pwfiles, idx, tempdir, ext, runs, trace,
                 ret, shell_cwd, shell_status, removals, exit_code>>

\* a second call on the tree a pass that returned left behind
ReconcileAgain ==
  /\ pc = "pass"
  /\ raised = "none"
  /\ Reconcile
  /\ pc' = "again"
  /\ UNCHANGED <<FLAGS, argv, cwd, pwfiles, idx, tempdir, ext, runs, trace,
                 ret, shell_cwd, shell_status, removals, exit_code>>


(***************************************************************************)
(* _get_minimal_common_directory                                           *)
(***************************************************************************)
Dirnames(t, d) == {e \in listdir(t, d) : isdir(t, join(d, e))}
Filenames(t, d) == listdir(t, d) \ Dirnames(t, d)

\* WalkTopDown with line 239 left out: only plain files stop the walk
RECURSIVE WalkTopDownFilesOnly(_, _)
WalkTopDownFilesOnly(t, dirpath) ==
  IF Filenames(t, dirpath) # {} \/ Dirnames(t, dirpath) = {}
  THEN dirpath
  ELSE WalkTopDownFilesOnly(
         t, join(dirpath, CHOOSE e \in Dirnames(t, dirpath) : TRUE))

\* the loop of lines 233-240 from the directory os.walk yields next; os.walk
\* goes top-down, so after a directory with one subdirectory and no files it
\* yields that subdirectory
RECURSIVE WalkTopDown(_, _)
WalkTopDown(t, dirpath) ==
  IF Filenames(t, dirpath) # {}
  THEN dirpath
  ELSE IF Cardinality(Dirnames(t, dirpath)) # 1
  THEN dirpath
  ELSE WalkTopDown(t, join(dirpath, CHOOSE e \in Dirnames(t, dirpath) : TRUE))

_get_minimal_common_directory(t, base_dir) == WalkTopDown(t, base_dir)

Collapse ==
  /\ pc = "build"
  /\ shell_cwd' = _get_minimal_common_directory(fs, <<>>)
  /\ pc' = "collapsed"
  /\ UNCHANGED <<FLAGS, argv, cwd, pwfiles, idx, tempdir, fs, fs0, calls,
                 merges, raised, ext, runs, trace, ret, shell_status,
                 removals, exit_code>>

NextTree == BuildTree \/ ReconcilePass \/ ReconcileAgain \/ Collapse

SpecTree == InitTree /\ [][NextTree]_vars

(***************************************************************************)
(* removedirs                                                              *)
(***************************************************************************)
RECURSIVE RemoveDirnames(_, _, _)
RECURSIVE RemoveFilenames(_, _, _)
RECURSIVE WalkBottomUp(_, _)
RECURSIVE WalkSubdirs(_, _, _)

\* lines 286-287
RemoveDirnames(st, dirpath, todo) ==
  IF todo = {}
  THEN {st}
  ELSE UNION { LET o == rmdir(st, join(dirpath, d))
               IN  IF o.err = "ok"
                   THEN RemoveDirnames(o, dirpath, todo \ {d})
                   ELSE {o}
             : d \in todo }

\* lines 289-290
RemoveFilenames(st, dirpath, todo) ==
  IF todo = {}
  THEN {st}
  ELSE UNION { RemoveFilenames(unlink(st, join(dirpath, f)), dirpath, todo \ {f})
             : f \in todo }

\* os.walk(topdown=False) below dirpath: every subdirectory is walked before
\* dirpath itself is yielded
WalkSubdirs(st, dirpath, todo) ==
  IF todo = {}
  THEN {st}
  ELSE UNION {
         UNION { IF o.err = "ok"
                 THEN WalkSubdirs(o, dirpath, todo \ {d})
                 ELSE {o}
               : o \in WalkBottomUp(st, join(dirpath, d)) }
       : d \in todo }

\* the loop of lines 285-290 for dirpath and everything below it; dirnames
\* and filenames are listed before the subdirectories are walked
WalkBottomUp(st, dirpath) ==
  LET dirnames == Dirnames(st.fs, dirpath)
      filenames == Filenames(st.fs, dirpath)
  IN  UNION {
        IF o.err # "ok"
        THEN {o}
        ELSE UNION { IF o2.err = "ok"
                     THEN RemoveFilenames(o2, dirpath, filenames)
                     ELSE {o2}
                   : o2 \in RemoveDirnames(o, dirpath, dirnames) }
      : o \in WalkSubdirs(st, dirpath, dirnames) }

\* removedirs with os.listdir in place of os.walk: only the entries of
\* basedir itself are removed
removedirs_one_level(st, basedir) ==
  UNION {
    IF o.err # "ok"
    THEN {o}
    ELSE { rmdir(o2, basedir)
         : o2 \in RemoveFilenames(o, basedir, Filenames(st.fs, basedir)) }
  : o \in RemoveDirnames(st, basedir, Dirnames(st.fs, basedir)) }

removedirs(st, basedir) ==
  UNION { IF o.err = "ok" THEN {rmdir(o, basedir)} ELSE {o}
        : o \in WalkBottomUp(st, basedir) }

(***************************************************************************)
(* The orchestrator: _tmpdir_wrapper, main and the process exit.           *)
(***************************************************************************)
MaxArchives == 2   \* archives named on the command line
MaxStatus == 2     \* largest exit status of the interactive shell

\* the archives of a run: one with a registered extension (after
\* lower-casing), one without
RunFiles == {<<"a",".","Z","I","P">>, <<"b",".","t","x","t">>}
RunOverrides == {<<>>, <<".","T","G","Z">>}

\* what an archive may hold
ArchiveContents ==
  { EmptyTree,
    (<<Foo>> :> TRUE) @@ (<<Foo, a_txt>> :> FALSE),
    (<<foo>> :> TRUE) @@ (<<foo, a_txt>> :> FALSE),
    (<<foo>> :> TRUE) @@ (<<foo, a_txt>> :> TRUE),
    (<<foo>> :> TRUE) @@ (<<foo, b_txt>> :> FALSE) }

\* the workspace after an extraction tool unpacked content into it: an entry
\* is created unless it exists or something above it is a plain file
Extracted(t, content) ==
  LET added == {p \in DOMAIN content \ DOMAIN t :
                  \A n \in 1..(Len(p) - 1) :
                     SubSeq(p, 1, n) \in DOMAIN t => t[SubSeq(p, 1, n)]}
  IN  [p \in DOMAIN t \cup added |-> IF p \in DOMAIN t THEN t[p] ELSE content[p]]

Step(name, arg) == [step |-> name, arg |-> arg]

Init ==
  /\ pc = "start"
  /\ argv \in UNION {[1..n -> RunFiles] : n \in 0..MaxArchives}
  /\ cwd = <<"/","w">>
  /\ \E u, c, m, i \in BOOLEAN, o \in RunOverrides :
       FLAGS = [use_7z_for_zip |-> u, override_extension |-> o,
                decode_charset |-> c, munge_slashes |-> m,
                pretend_case_insensitive |-> i]
  /\ pwfiles = {}
  /\ idx = 1
  /\ tempdir = FALSE
  /\ fs = EmptyTree
  /\ fs0 = EmptyTree
  /\ calls = <<>>
  /\ merges = <<>>
  /\ raised = "none"
  /\ ext = <<>>
  /\ runs = <<>>
  /\ trace = <<>>
  /\ ret = None
  /\ shell_cwd = <<>>
  /\ shell_status = -1
  /\ removals = 0
  /\ exit_code = -1

\* line 302: tempfile.mkdtemp
Mkdtemp ==
  /\ pc = "start"
  /\ tempdir' = TRUE
  /\ trace' = Append(trace, Step("mkdtemp", 0))
  /\ pc' = "extract"
  /\ UNCHANGED <<FLAGS, argv, cwd, pwfiles, idx, fs, fs0, calls, merges,
                 raised, ext, runs, ret, shell_cwd, shell_status, removals,
                 exit_code>>

\* ExtractArchive with the UnknownArchiveError caught in the loop: the
\* archive is skipped and the loop goes on
ExtractArchiveSkipUnknown ==
  /\ pc = "extract"
  /\ idx <= Len(argv)
  /\ LET r == extract_archive(path_join(cwd, argv[idx]), FLAGS, pwfiles)
     IN  /\ ext' = r.ext
         /\ runs' = runs \o r.cmds
         /\ raised' = "none"
         /\ IF r.err = "ok"
            THEN /\ pc' = "tool"
                 /\ trace' = Append(trace, Step("extract_start", idx))
                 /\ idx' = idx
            ELSE /\ pc' = "extract"
                 /\ trace' = trace
                 /\ idx' = idx + 1
  /\ UNCHANGED <<FLAGS, argv, cwd, pwfiles, tempdir, fs, fs0, calls,
                 merges, ret, shell_cwd, shell_status, removals, exit_code>>

\* lines 250-251, one iteration up to the Popen of _run_extractor; an
\* UnknownArchiveError leaves main for the finally clause
ExtractArchive ==
  /\ pc = "extract"
  /\ idx <= Len(argv)
  /\ Extract
  /\ IF raised' = "none"
     THEN /\ pc' = "tool"
          /\ trace' = Append(trace, Step("extract_start", idx))
     ELSE /\ pc' = "finally"
          /\ trace' = trace
  /\ UNCHANGED <<FLAGS, argv, cwd, pwfiles, idx, tempdir, fs, fs0, calls,
                 merges, ret, shell_cwd, shell_status, removals, exit_code>>

\* line 116: extractor.wait() returns; the tool has unpacked the archive and
\* its exit status is dropped by main
ToolExit ==
  /\ pc = "tool"
  /\ \E content \in ArchiveContents : fs' = Extracted(fs, content)
  /\ trace' = Append(trace, Step("extract_end", idx))
  /\ idx' = idx + 1
  /\ pc' = "extract"
  /\ UNCHANGED <<FLAGS, argv, cwd, pwfiles, tempdir, fs0, calls, merges,
                 raised, ext, runs, ret, shell_cwd, shell_status, removals,
                 exit_code>>

ConvmvCmd ==
  [prog |-> "convmv",
   args |-> <<"-f", "{}", "-t", "utf8", "--notest", "-r", ".">>,
   password |-> None, file |-> <<>>]

\* the loop of line 250 ends; lines 253-261 up to the Popen of convmv
ExtractionsDone ==
  /\ pc = "extract"
  /\ idx > Len(argv)
  /\ IF FLAGS.decode_charset
     THEN /\ runs' = Append(runs, ConvmvCmd)
          /\ trace' = Append(trace, Step("convmv_start", 0))
          /\ pc' = "convmv"
     ELSE /\ UNCHANGED <<runs, trace>>
          /\ pc' = "merge"
  /\ UNCHANGED <<FLAGS, argv, cwd, pwfiles, idx, tempdir, fs, fs0, calls,
                 merges, raised, ext, ret, shell_cwd, shell_status, removals,
                 exit_code>>

\* line 261: convmv exits
ConvmvExit ==
  /\ pc = "convmv"
  /\ trace' = Append(trace, Step("convmv_end", 0))
  /\ pc' = "merge"
  /\ UNCHANGED <<FLAGS, argv, cwd, pwfiles, idx, tempdir, fs, fs0, calls,
                 merges, raised, ext, runs, ret, shell_cwd, shell_status,
                 removals, exit_code>>

\* munge_directories: os.walk never yields a directory name holding "/", so
\* nothing is logged and nothing is renamed
munge_directories(t) == t

\* lines 263-267
MungeAndReconcile ==
  /\ pc = "merge"
  /\ LET munged == IF FLAGS.munge_slashes
                   THEN Append(trace, Step("munge_directories", 0))
                   ELSE trace
     IN  IF FLAGS.pretend_case_insensitive
         THEN /\ Reconcile
              /\ trace' = Append(munged, Step("reconcile", 0))
              /\ pc' = IF raised' = "none" THEN "collapse" ELSE "finally"
         ELSE /\ fs' = munge_directories(fs)
              /\ trace' = munged
              /\ pc' = "collapse"
              /\ UNCHANGED <<fs0, calls, merges, raised>>
  /\ UNCHANGED <<FLAGS, argv, cwd, pwfiles, idx, tempdir, ext, runs, ret,
                 shell_cwd, shell_status, removals, exit_code>>

ShellCmd ==
  [prog |-> "/bin/bash", args |-> <<"-il">>, password |-> None, file |-> <<>>]

\* LaunchShell without the wait() of line 274: main returns while the shell
\* runs
LaunchShellNoWait ==
  /\ pc = "collapse"
  /\ shell_cwd' = _get_minimal_common_directory(fs, <<>>)
  /\ runs' = Append(runs, ShellCmd)
  /\ trace' = trace \o <<Step("collapse", 0), Step("shell_start", 0)>>
  /\ pc' = "finally"
  /\ UNCHANGED <<FLAGS, argv, cwd, pwfiles, idx, tempdir, fs, fs0, calls,
                 merges, raised, ext, ret, shell_status, removals, exit_code>>

\* lines 269-273: the working directory is computed, then the shell starts
LaunchShell ==
  /\ pc = "collapse"
  /\ shell_cwd' = _get_minimal_common_directory(fs, <<>>)
  /\ runs' = Append(runs, ShellCmd)
  /\ trace' = trace \o <<Step("collapse", 0), Step("shell_start", 0)>>
  /\ pc' = "shell"
  /\ UNCHANGED <<FLAGS, argv, cwd, pwfiles, idx, tempdir, fs, fs0, calls,
                 merges, raised, ext, ret, shell_status, removals, exit_code>>

\* lines 269-274: the value of wait() is not returned; main falls off its
\* end and returns None
main_result(status) == None

\* line 274: the shell exits with some status and main returns
ShellExit ==
  /\ pc = "shell"
  /\ \E s \in 0..MaxStatus :
       /\ shell_status' = s
       /\ ret' = main_result(s)
  /\ trace' = Append(trace, Step("shell_exit", 0))
  /\ pc' = "finally"
  /\ UNCHANGED <<FLAGS, argv, cwd, pwfiles, idx, tempdir, fs, fs0, calls,
                 merges, raised, ext, runs, shell_cwd, removals, exit_code>>

\* lines 306-308: the finally clause of _tmpdir_wrapper; an exception of
\* removedirs replaces the one propagating
Finally ==
  /\ pc = "finally"
  /\ \E o \in removedirs([fs |-> fs, err |-> "ok"], <<>>) :
       /\ fs' = o.fs
       /\ tempdir' = (o.err # "ok")
       /\ removals' = IF o.err = "ok" THEN removals + 1 ELSE removals
       /\ raised' = IF o.err = "ok" THEN raised ELSE o.err
  /\ trace' = Append(trace, Step("removedirs", 0))
  /\ pc' = "return"
  /\ UNCHANGED <<FLAGS, argv, cwd, pwfiles, idx, fs0, calls, merges, ext,
                 runs, ret, shell_cwd, shell_status, exit_code>>

\* sys.exit(value): None is status 0
sys_exit(value) == IF value = None THEN 0 ELSE value[1]

\* lines 318-325: app.run exits with the value _tmpdir_wrapper returned, and
\* _parse_gflags drops it, which ends the process with status 0 as well; an
\* uncaught exception ends it with status 1
ProcessExit ==
  /\ pc = "return"
  /\ exit_code' = IF raised # "none" THEN 1 ELSE sys_exit(ret)
  /\ pc' = "exited"
  /\ UNCHANGED <<FLAGS, argv, cwd, pwfiles, idx, tempdir, fs, fs0, calls,
                 merges, raised, ext, runs, trace, ret, shell_cwd,
                 shell_status, removals>>

Next ==
  \/ Mkdtemp
  \/ ExtractArchive
  \/ ToolExit
  \/ ExtractionsDone
  \/ ConvmvExit
  \/ MungeAndReconcile
  \/ LaunchShell
  \/ ShellExit
  \/ Finally
  \/ ProcessExit

Spec == Init /\ [][Next]_vars

(***************************************************************************)
(* Properties of the reconciler.                                           *)
(***************************************************************************)
Parent(p) == SubSeq(p, 1, Len(p) - 1)
Last(p) == p[Len(p)]

\* two sibling directories of t whose names are equal after lower-casing
CaseCollisions(t) ==
  {pq \in (DOMAIN t) \X (DOMAIN t) :
     /\ pq[1] # pq[2]
     /\ t[pq[1]] /\ t[pq[2]]
     /\ Len(pq[1]) = Len(pq[2])
     /\ Parent(pq[1]) = Parent(pq[2])
     /\ lower(Last(pq[1])) = lower(Last(pq[2]))}

ReconcilerReturned == pc \in {"pass", "again"} /\ raised = "none"

\* C2: after _merge_directories_ignore_case returns, no directory of the
\* tree, at any depth, has two subdirectories whose names are equal after
\* lower-casing.
C2_NoCaseCollisionAfterReturn ==
  ReconcilerReturned => CaseCollisions(fs) = {}

\* a pass returned after merging a top-level group and a nested group
C2_Witness ==
  /\ pc = "pass" /\ raised = "none"
  /\ \E i, j \in 1..Len(calls) :
       Len(calls[i].remote) = 1 /\ Len(calls[j].remote) = 2
  /\ CaseCollisions(fs) = {}

\* the names that are a plain file on one side and a directory on the other,
\* at the top of the two directories or below same-named directories
RECURSIVE Mismatch(_, _, _)
Mismatch(t, remote_dir, local_dir) ==
  \E e \in listdir(t, remote_dir) \cap listdir(t, local_dir) :
     \/ isdir(t, join(remote_dir, e)) # isdir(t, join(local_dir, e))
     \/ /\ isdir(t, join(remote_dir, e))
        /\ Mismatch(t, join(remote_dir, e), join(local_dir, e))

SourceOnly(c) == listdir(c.pre, c.remote) \ listdir(c.pre, c.local)

FooFixture == (<<Foo>> :> TRUE) @@ (<<Foo, a_txt>> :> FALSE) @@
              (<<foo>> :> TRUE) @@ (<<foo, b_txt>> :> FALSE)

\* C3: reconciling Foo/a.txt, foo/b.txt completes and leaves one of Foo and
\* foo, holding a.txt and b.txt; after a merge started by the reconciler at
\* the workspace root, of directories that do not disagree on file versus
\* directory, every entry found only in the source is in the target (a
\* file under its name, a directory under its name up to case), and the
\* source is gone.
C3_SourceOnlyEntriesMoved ==
  pc = "pass" =>
    /\ fs0 = FooFixture =>
          /\ raised = "none"
          /\ \E d \in {Foo, foo} :
               /\ listdir(fs, <<>>) = {d}
               /\ listdir(fs, <<d>>) = {a_txt, b_txt}
    /\ \A i \in 1..Len(calls) :
          (/\ Len(calls[i].remote) = 1
           /\ ~Mismatch(calls[i].pre, calls[i].remote, calls[i].local)) =>
            /\ calls[i].remote \notin DOMAIN fs
            /\ \A e \in SourceOnly(calls[i]) :
                 \E e2 \in listdir(fs, calls[i].local) :
                    /\ lower(e2) = lower(e)
                    /\ fs[join(calls[i].local, e2)]
                         = calls[i].pre[join(calls[i].remote, e)]
                    /\ ~calls[i].pre[join(calls[i].remote, e)] => e2 = e

\* C4: a merge whose source and target disagree on file versus directory
\* for some name always ends in MergeFailureError, with the source
\* directory still there and no merge of another group started after it.
C4_MismatchRaisesMergeFailure ==
  pc = "pass" =>
    \A i \in 1..Len(calls) :
       Mismatch(calls[i].pre, calls[i].remote, calls[i].local) =>
         /\ raised = "MergeFailureError"
         /\ calls[i].remote \in DOMAIN fs
         /\ \A j \in (i + 1)..Len(calls) :
              IsPrefix(calls[i].remote, calls[j].remote)

\* C5: a pass over a tree without case collisions, such as the tree a pass
\* that returned left behind, returns and changes nothing.
C5_Idempotent ==
  /\ (pc \in {"pass", "again"} /\ CaseCollisions(fs0) = {}) =>
       (raised = "none" /\ fs = fs0 /\ calls = <<>>)
  /\ pc = "again" => (raised = "none" /\ fs = fs0 /\ calls = <<>>)

\* a second pass ran on the result of a pass that merged directories
C5_Witness ==
  /\ pc = "again" /\ Len(merges) = 2 /\ merges[1] > 0
  /\ fs = fs0 /\ \E p \in DOMAIN fs : Len(p) = 2

\* the errors the reconciler can end in
ReconcilerErrors ==
  raised \in {"none", "MergeFailureError", "NameError"}

(***************************************************************************)
(* Properties of the collapser.                                            *)
(***************************************************************************)
\* the stop condition: a plain file, or not exactly one subdirectory
StopsAt(t, d) == Filenames(t, d) # {} \/ Cardinality(Dirnames(t, d)) # 1

\* C7: _get_minimal_common_directory returns the first directory on the way
\* down from base_dir that holds a plain file or does not hold exactly one
\* subdirectory; every directory above it holds no plain file and exactly
\* one subdirectory.
C7_CommonRootIsFirstStop ==
  pc = "collapsed" =>
    /\ isdir(fs, shell_cwd)
    /\ StopsAt(fs, shell_cwd)
    /\ \A n \in 0..(Len(shell_cwd) - 1) : ~StopsAt(fs, SubSeq(shell_cwd, 1, n))

\* a chain of two single-subdirectory levels was descended
C7_Witness ==
  /\ pc = "collapsed"
  /\ Len(shell_cwd) = 2
  /\ Cardinality(DOMAIN fs) = 2

(***************************************************************************)
(* Properties of the dispatcher.                                           *)
(***************************************************************************)
\* the program that handles each family of extensions
Family(e, flags) ==
  CASE e \in RarExts -> "unrar"
    [] e \in ZipExts -> IF flags.use_7z_for_zip THEN "7z" ELSE "unzip"
    [] e \in SevenZipExts -> "7z"
    [] e \in TarExts -> "tar"
    [] e \in ArExts -> "ar"
    [] OTHER -> "none"

\* the extension the claim describes: the override when set, else the last
\* extension of the file name, lower-cased
WantedExt(filename, flags) ==
  lower(IF flags.override_extension # <<>>
        THEN flags.override_extension
        ELSE splitext(filename))

\* C6: extract_archive derives one lower-cased extension (the override when
\* set, else the file name's last extension) and either runs exactly one
\* command, that of the strategy registered for the extension, or, when the
\* extension is not registered, raises UnknownArchiveError and runs nothing.
C6_DispatchOneStrategy ==
  pc = "dispatched" =>
    LET filename == path_join(cwd, argv[1])
        want == WantedExt(filename, FLAGS)
    IN  /\ ext = want
        /\ Family(want, FLAGS) # "none" =>
             /\ raised = "none"
             /\ Len(runs) = 1
             /\ runs[1].prog = Family(want, FLAGS)
             /\ runs[1].file = filename
        /\ Family(want, FLAGS) = "none" =>
             /\ raised = "UnknownArchiveError"
             /\ runs = <<>>

\* a file name ending in .ZIP, no override, unzip preferred: unzip is run
C6_Witness ==
  /\ pc = "dispatched"
  /\ FLAGS.override_extension = <<>>
  /\ ~FLAGS.use_7z_for_zip
  /\ splitext(argv[1]) = <<".","Z","I","P">>
  /\ ext = <<".","z","i","p">>
  /\ Len(runs) = 1 /\ runs[1].prog = "unzip"

(***************************************************************************)
(* Properties of the orchestrator.                                         *)
(***************************************************************************)
Positions(name) == {i \in 1..Len(trace) : trace[i].step = name}
Happened(name) == Positions(name) # {}

\* C1: the workspace created at startup is removed exactly once and is gone
\* when the run ends, however main is left.
C1_WorkspaceRemovedOnce ==
  /\ removals <= 1
  /\ pc \in {"extract", "tool", "convmv", "merge", "collapse", "shell", "finally"}
       => (tempdir /\ removals = 0)
  /\ pc \in {"return", "exited"}
       => (removals = 1 /\ ~tempdir /\ fs = EmptyTree)

\* a run left by MergeFailureError ended with the workspace removed
C1_Witness ==
  /\ pc = "exited"
  /\ raised = "MergeFailureError"
  /\ fs0 # EmptyTree
  /\ removals = 1 /\ ~tempdir

\* C8: when the shell was reached and exited with status s, the exit code
\* of the process is s.
C8_ExitCodeIsShellStatus ==
  (pc = "exited" /\ shell_status >= 0) => exit_code = shell_status

Order(name) ==
  CASE name = "mkdtemp" -> 0
    [] name \in {"extract_start", "extract_end"} -> 1
    [] name \in {"convmv_start", "convmv_end"} -> 2
    [] name = "munge_directories" -> 3
    [] name = "reconcile" -> 4
    [] name = "collapse" -> 5
    [] name = "shell_start" -> 6
    [] name = "shell_exit" -> 7
    [] name = "removedirs" -> 8

\* C9: the workspace is created first; the archives are extracted one at a
\* time in input order, each extraction ending before the next starts; then
\* the re-encoding pass (when decode_charset is set); then the reconciler
\* (only when pretend_case_insensitive is set); then the collapser; then the
\* shell, started in the collapsed root; and the workspace is removed only
\* after the shell has exited.
C9_StepsInOrder ==
  /\ trace # <<>> => trace[1].step = "mkdtemp"
  /\ \A i, j \in 1..Len(trace) :
       i < j => /\ Order(trace[i].step) <= Order(trace[j].step)
                /\ trace[i] # trace[j]
  /\ \A i \in Positions("extract_start") :
       /\ trace[i].arg = Cardinality({j \in Positions("extract_start") : j <= i})
       /\ runs[trace[i].arg].file = path_join(cwd, argv[trace[i].arg])
       /\ i < Len(trace) => trace[i + 1] = Step("extract_end", trace[i].arg)
       /\ i = Len(trace) => pc = "tool"
  /\ \A i \in Positions("extract_end") :
       i > 1 /\ trace[i - 1] = Step("extract_start", trace[i].arg)
  /\ \A i \in Positions("convmv_start") :
       /\ FLAGS.decode_charset
       /\ i < Len(trace) => trace[i + 1].step = "convmv_end"
       /\ i = Len(trace) => pc = "convmv"
  /\ Happened("reconcile") => FLAGS.pretend_case_insensitive
  /\ (Happened("reconcile") \/ Happened("collapse")) =>
       /\ Cardinality(Positions("extract_end")) = Len(argv)
       /\ FLAGS.decode_charset => Happened("convmv_end")
  /\ Happened("collapse") =>
       /\ FLAGS.pretend_case_insensitive => Happened("reconcile")
       /\ Happened("shell_start")
  /\ pc = "shell" =>
       /\ tempdir
       /\ shell_cwd = _get_minimal_common_directory(fs, <<>>)
  /\ (Happened("removedirs") /\ Happened("shell_start")) => Happened("shell_exit")
  /\ ~tempdir => (pc = "start" \/ Happened("removedirs"))

\* a run with two archives, re-encoding and reconciliation reached its end
C9_Witness ==
  /\ pc = "exited"
  /\ raised = "none"
  /\ Len(argv) = 2
  /\ FLAGS.decode_charset /\ FLAGS.pretend_case_insensitive
  /\ merges = <<1>>
  /\ Happened("shell_exit") /\ Happened("removedirs")

Unknown(i) ==
  filename_extension(path_join(cwd, argv[i]), FLAGS)
    \notin DOMAIN create_extractors_mapping(FLAGS)

FirstUnknown == {i \in 1..Len(argv) : Unknown(i) /\ \A j \in 1..(i - 1) : ~Unknown(j)}

\* C10: when the i-th archive has no registered strategy, the archives
\* before it are extracted in order, no external tool runs for the i-th or
\* any later archive, the reconciler and the collapser never run, the shell
\* is never started, and main is left by UnknownArchiveError.
C10_UnknownArchiveAborts ==
  \A i \in FirstUnknown :
    /\ Len(runs) <= i - 1
    /\ \A k \in 1..Len(runs) : runs[k].file = path_join(cwd, argv[k])
    /\ \A n \in 1..Len(trace) :
         /\ trace[n].step \in {"mkdtemp", "extract_start", "extract_end", "removedirs"}
         /\ trace[n].arg < i
    /\ shell_status = -1
    /\ pc \in {"finally", "return", "exited"} =>
         /\ raised = "UnknownArchiveError"
         /\ idx = i
         /\ Len(runs) = i - 1
         /\ Cardinality(Positions("extract_end")) = i - 1

\* the second of two archives was unknown: one tool ran, then the run ended
C10_Witness ==
  /\ pc = "exited"
  /\ raised = "UnknownArchiveError"
  /\ 2 \in FirstUnknown
  /\ Len(runs) = 1
  /\ fs0 = EmptyTree /\ calls = <<>> /\ shell_status = -1

====
